---- MODULE Spec2Model ----
(***************************************************************************)
(* Bluesky "Saved Posts" extension: the content script (Page Observer,     *)
(* content.js) and the MV3 service worker (Tab State Registry,             *)
(* background.js, current revision), with the message channel and the tab  *)
(* lifecycle signals between them.                                         *)
(***************************************************************************)
EXTENDS Integers, Sequences, FiniteSets, TLC

\* ------------------------------------------------------------------------
\* Bounds
\* ------------------------------------------------------------------------
NumTabs == 2          \* tab identifiers 1..NumTabs
MaxNodes == 2         \* interactive containers a page can hold at once
MaxTimers == 2        \* timer handles setTimeout can hand out at once
MaxQueue == 1         \* messages / lifecycle signals in flight at once
MaxFetches == 2       \* applyIcon calls suspended at once where they overlap

Tabs == 1..NumTabs
Nodes == 1..MaxNodes
TimerIds == 1..MaxTimers

\* ------------------------------------------------------------------------
\* Program constants
\* ------------------------------------------------------------------------
MAX_SHOWN_COUNT == 99
MIDDLE_BUTTON == 1
NO_REPORT == 0 - 1    \* initial / invalidated state.lastReportedCount (-1)
NULL == 0             \* state.scanTimer === null

\* ------------------------------------------------------------------------
\* Locations
\* ------------------------------------------------------------------------
SavedUrl == [host |-> "bsky.app", path |-> "/saved"]
HomeUrl == [host |-> "bsky.app", path |-> "/"]
OtherSiteUrl == [host |-> "example.com", path |-> "/saved"]
Urls == {SavedUrl, HomeUrl, OtherSiteUrl}

StartsWith(s, p) == Len(s) >= Len(p) /\ SubSeq(s, 1, Len(p)) = p

\* isOnSavedPage() testing the hostname only
isOnSavedPageAnyPath(u) == u.host = "bsky.app"

\* content.js: location.hostname === 'bsky.app' && pathname.startsWith('/saved')
isOnSavedPage(u) == u.host = "bsky.app" /\ StartsWith(u.path, "/saved")

\* background.js: /^https:\/\/bsky\.app\/saved/.test(url)
isSavedUrl(u) == StartsWith("https://" \o u.host \o u.path, "https://bsky.app/saved")

\* the manifest injects content.js on https://bsky.app/* only
HasContentScript(u) == u.host = "bsky.app"

\* ------------------------------------------------------------------------
\* DOM: interactive containers div[role="link"][tabindex] and their link
\* ------------------------------------------------------------------------
\* an href is the list of its "/"-separated pieces: "/profile/a/post/1" is
\* <<"", "profile", "a", "post", "1">>; <<>> is a container without a link
NoLink == <<>>
HrefPost1 == <<"", "profile", "alice", "post", "1">>
HrefPost2 == <<"", "profile", "bob", "post", "2">>
HrefDecoy == <<"", "profile", "alice", "post", "">>
Hrefs == {NoLink, HrefPost1, HrefPost2, HrefDecoy}

\* PROFILE_POST_SELECTOR: a[href^="/profile/"][href*="/post/"]
MatchesSelector(h) ==
    /\ Len(h) >= 3
    /\ h[1] = ""
    /\ h[2] = "profile"
    /\ \E i \in 2..(Len(h) - 1) : h[i] = "post"

\* /^\/profile\/[^/]+\/post\/[^/]+/.test(href)
MatchesPattern(h) ==
    /\ Len(h) >= 5
    /\ h[1] = ""
    /\ h[2] = "profile"
    /\ h[3] # ""
    /\ h[4] = "post"
    /\ h[5] # ""

\* a container: whether it is visible, the container it is nested in (0: none),
\* the href of its own link, whether that link is visible and whether it
\* comes after the nested containers in document order; the handled flags of
\* the container and of its link, and the urls bound by the auxclick
\* listeners attached to each
Absent == [present |-> FALSE, visible |-> FALSE, parent |-> 0, href |-> NoLink,
           linkVisible |-> FALSE, linkLast |-> FALSE,
           handledContainer |-> FALSE, handledAnchor |-> FALSE,
           containerListeners |-> <<>>, anchorListeners |-> <<>>]

\* a freshly rendered container: no handled markers, no listeners yet
Card(vis, par, h, lvis, last) ==
    [present |-> TRUE, visible |-> vis, parent |-> par, href |-> h,
     linkVisible |-> lvis, linkLast |-> last,
     handledContainer |-> FALSE, handledAnchor |-> FALSE,
     containerListeners |-> <<>>, anchorListeners |-> <<>>]

\* the same with the link ahead of everything nested in the container
NewCard(vis, par, h, lvis) == Card(vis, par, h, lvis, FALSE)

EmptyDom == [n \in Nodes |-> Absent]

\* isVisible(element) for a container / for its link
isVisible(d, n) == d[n].present /\ d[n].visible
isLinkVisible(d, n) == d[n].present /\ d[n].linkVisible

\* container.parentElement?.closest('div[role="link"][tabindex]')
HasParentContainer(d, n) == d[n].parent # 0

RECURSIVE Inside(_, _, _)
\* node n lies inside container c (n = c included)
Inside(d, n, c) ==
    IF n = c THEN TRUE
    ELSE IF d[n].parent = 0 THEN FALSE
    ELSE Inside(d, d[n].parent, c)

\* the filter without the test for a parent container
TopLevelContainersAll(d) ==
    {n \in Nodes : d[n].present /\ isVisible(d, n)}

\* scanAndBind: the filter over querySelectorAll('div[role="link"][tabindex]')
TopLevelContainers(d) ==
    {n \in Nodes : d[n].present /\ isVisible(d, n) /\ ~HasParentContainer(d, n)}

RECURSIVE LinkOrder(_, _)
RECURSIVE LinkOrderOf(_, _)
\* the links inside container n in document order, each named by the
\* container it belongs to; containers are numbered in document order
LinkOrder(d, n) ==
    LET own == IF d[n].href # NoLink THEN <<n>> ELSE <<>>
        nested == LinkOrderOf(d, {m \in Nodes : d[m].present /\ d[m].parent = n})
    IN IF d[n].linkLast THEN nested \o own ELSE own \o nested

\* the links inside the containers S, one container after the other
LinkOrderOf(d, S) ==
    IF S = {} THEN <<>>
    ELSE LET m == CHOOSE x \in S : \A y \in S : x <= y
         IN LinkOrder(d, m) \o LinkOrderOf(d, S \ {m})

\* container.querySelector(PROFILE_POST_SELECTOR): the first matching link in
\* document order inside the container (0 when there is none)
AnchorOf(d, c) ==
    LET cand == SelectSeq(LinkOrder(d, c), LAMBDA n : MatchesSelector(d[n].href))
    IN IF cand = <<>> THEN 0 ELSE Head(cand)

\* the same without the visibility check of the link
AcceptedAnyLink(d) ==
    {c \in TopLevelContainers(d) :
        /\ AnchorOf(d, c) # 0
        /\ MatchesPattern(d[AnchorOf(d, c)].href)}

\* the containers whose link passes the pattern and the visibility check
Accepted(d) ==
    {c \in TopLevelContainers(d) :
        /\ AnchorOf(d, c) # 0
        /\ MatchesPattern(d[AnchorOf(d, c)].href)
        /\ isLinkVisible(d, AnchorOf(d, c))}

\* uniqueHrefs filled before the pattern and visibility checks of the link
UniqueHrefsUnchecked(d) ==
    {d[AnchorOf(d, c)].href : c \in {x \in TopLevelContainers(d) : AnchorOf(d, x) # 0}}

\* uniqueHrefs after the loop
UniqueHrefs(d) == {d[AnchorOf(d, c)].href : c \in Accepted(d)}

\* toAbsoluteUrl(href): new URL(href, location.origin).toString(), as the
\* list of its "/"-separated pieces
toAbsoluteUrl(h, host) ==
    IF h # <<>> /\ h[1] = "" THEN <<"https:", "", host>> \o Tail(h)
    ELSE <<"https:", "", host>> \o h

\* the listeners of a node after addEventListener('auxclick', handleAuxClick(u))
\* when the handled flag was not set
Listen(flag, listeners, u) == IF flag THEN listeners ELSE Append(listeners, u)

\* ensureAnchorMiddleClick / ensureMiddleClick without the test of the
\* handled flag
BindAgain(d, host) ==
    [n \in Nodes |->
        [d[n] EXCEPT
            !.handledContainer = @ \/ n \in Accepted(d),
            !.containerListeners =
                IF n \in Accepted(d)
                THEN Append(@, toAbsoluteUrl(d[AnchorOf(d, n)].href, host))
                ELSE @,
            !.handledAnchor = @ \/ (\E c \in Accepted(d) : AnchorOf(d, c) = n),
            !.anchorListeners =
                IF \E c \in Accepted(d) : AnchorOf(d, c) = n
                THEN Append(@, toAbsoluteUrl(d[n].href, host))
                ELSE @]]

\* ensureAnchorMiddleClick / ensureMiddleClick over the accepted pairs, the
\* page being at origin https://host
Bind(d, host) ==
    [n \in Nodes |->
        [d[n] EXCEPT
            !.handledContainer = @ \/ n \in Accepted(d),
            !.containerListeners =
                IF n \in Accepted(d)
                THEN Listen(d[n].handledContainer, @, toAbsoluteUrl(d[AnchorOf(d, n)].href, host))
                ELSE @,
            !.handledAnchor = @ \/ (\E c \in Accepted(d) : AnchorOf(d, c) = n),
            !.anchorListeners =
                IF \E c \in Accepted(d) : AnchorOf(d, c) = n
                THEN Listen(d[n].handledAnchor, @, toAbsoluteUrl(d[n].href, host))
                ELSE @]]

\* ------------------------------------------------------------------------
\* State
\* ------------------------------------------------------------------------
VARIABLES
    open,               \* the set of tabs that are open
    url,                \* per tab: the location of its page
    pc,                 \* per tab: "none" (no content script), "loading"
                        \* (bootstrap ran while the document was loading,
                        \* DOMContentLoaded listener waiting) or "ready"
    lastReportedCount,  \* per tab: state.lastReportedCount
    scanTimer,          \* per tab: state.scanTimer (NULL or a timer handle)
    timers,             \* per tab: the timers the page has pending
    channelUp,          \* per tab: chrome.runtime is usable from the page
    dom,                \* per tab: the containers of the page
    msgQ,               \* runtime messages in flight to the service worker
    sigQ,               \* chrome.tabs events in flight to the service worker
    tabCounts,          \* the Map tabCounts of the service worker
    svgPathData,        \* "null", or the glyph ensureSvgPathLoaded stored
    fetching,           \* applyIcon calls suspended in ensureSvgPathLoaded
    activating,         \* onActivated calls suspended in chrome.tabs.get
    icon,               \* per tab: the indicator the toolbar shows
    requested,          \* per tab: the indicator the latest applyIcon call derived
    uncaught,           \* a rejection has left applyIcon for its caller
    lastSent,           \* per tab: the count of the last message the content
                        \* script sent since its memory was last invalidated
    obsLast,            \* the last step a content script took
    regLast             \* the last step the service worker took

obsVars == <<pc, lastReportedCount, scanTimer, timers, channelUp, dom, lastSent, obsLast>>
regVars == <<tabCounts, svgPathData, fetching, activating, icon, requested, uncaught, regLast>>
vars == <<open, url, pc, lastReportedCount, scanTimer, timers, channelUp, dom,
          msgQ, sigQ, tabCounts, svgPathData, fetching, activating, icon,
          requested, uncaught, lastSent, obsLast, regLast>>

\* a JavaScript value carried as message.count
Num(n) == [kind |-> "number", val |-> n]
NotANumber == [kind |-> "NaN", val |-> 0]
Undefined == [kind |-> "undefined", val |-> 0]

FoundCount(v) == [type |-> "FOUND_COUNT", count |-> v]

NoIndicator == [state |-> "default", label |-> ""]

\* the tabs are open at u, the page of tab 1 holding the containers d; no
\* content script has started and the service worker has just started
InitPage(u, d) ==
    /\ open = Tabs
    /\ url = [t \in Tabs |-> u]
    /\ pc = [t \in Tabs |-> "none"]
    /\ lastReportedCount = [t \in Tabs |-> NO_REPORT]
    /\ scanTimer = [t \in Tabs |-> NULL]
    /\ timers = [t \in Tabs |-> {}]
    /\ channelUp = [t \in Tabs |-> TRUE]
    /\ dom = [t \in Tabs |-> IF t = 1 THEN d ELSE EmptyDom]
    /\ msgQ = <<>>
    /\ sigQ = <<>>
    /\ tabCounts = <<>>
    /\ svgPathData = "null"
    /\ fetching = <<>>
    /\ activating = {}
    /\ icon = [t \in Tabs |-> NoIndicator]
    /\ requested = [t \in Tabs |-> NoIndicator]
    /\ uncaught = FALSE
    /\ lastSent = [t \in Tabs |-> NO_REPORT]
    /\ obsLast = [op |-> "none", tab |-> 0, pending |-> FALSE, sent |-> FALSE]
    /\ regLast = [op |-> "none", tab |-> 0, status |-> "", url |-> FALSE,
                  message |-> [type |-> "", count |-> Undefined]]

InitAt(u) == InitPage(u, EmptyDom)

Init == InitAt(OtherSiteUrl)

\* ------------------------------------------------------------------------
\* Page Observer (content.js)
\* ------------------------------------------------------------------------
\* the record of an observer step: the operation, its tab, whether a scan
\* was pending when it began and whether it put a message on the channel
ObsStep(op, t, sent) ==
    [op |-> op, tab |-> t, pending |-> scanTimer[t] # NULL, sent |-> sent]

\* chrome.runtime.sendMessage({ type: 'FOUND_COUNT', count }) inside try/catch
sendMessage(t, count) ==
    IF channelUp[t]
    THEN /\ msgQ' = Append(msgQ, [sender |-> t, message |-> FoundCount(Num(count))])
         /\ lastSent' = [lastSent EXCEPT ![t] = count]
    ELSE UNCHANGED <<msgQ, lastSent>>

\* sendCount(count) without the comparison with the last report
sendCountAlways(t, count) ==
    /\ lastReportedCount' = [lastReportedCount EXCEPT ![t] = count]
    /\ sendMessage(t, count)

\* sendCount(count) gets past its first line and calls sendMessage
Sends(t, count) == lastReportedCount[t] # count

\* sendCount(count)
sendCount(t, count) ==
    IF ~Sends(t, count)
    THEN UNCHANGED <<lastReportedCount, msgQ, lastSent>>
    ELSE /\ lastReportedCount' = [lastReportedCount EXCEPT ![t] = count]
         /\ sendMessage(t, count)

\* the handle setTimeout returns: the lowest one not in use
NewTimer(t) == CHOOSE id \in TimerIds \ timers[t] : \A o \in TimerIds \ timers[t] : id <= o

\* scheduleScan() without its guard
scheduleScanUnguarded(t) ==
    /\ scanTimer' = [scanTimer EXCEPT ![t] = NewTimer(t)]
    /\ timers' = [timers EXCEPT ![t] = @ \cup {NewTimer(t)}]

\* scheduleScan()
scheduleScan(t) ==
    IF scanTimer[t] # NULL
    THEN UNCHANGED <<scanTimer, timers>>
    ELSE /\ scanTimer' = [scanTimer EXCEPT ![t] = NewTimer(t)]
         /\ timers' = [timers EXCEPT ![t] = @ \cup {NewTimer(t)}]

\* the count of scanAndBind taken over the accepted containers instead of
\* over their hrefs
ScanCountPerCard(t) ==
    IF isOnSavedPage(url[t]) THEN Cardinality(Accepted(dom[t])) ELSE 0

\* the count scanAndBind computes
ScanCount(t) ==
    IF isOnSavedPage(url[t]) THEN Cardinality(UniqueHrefs(dom[t])) ELSE 0

\* the record of a scan: as ObsStep, with whether the scan called
\* chrome.runtime.sendMessage
ScanRecord(t) ==
    [op |-> "scanAndBind", tab |-> t, pending |-> scanTimer[t] # NULL,
     sent |-> msgQ' # msgQ, tried |-> Sends(t, ScanCount(t))]

\* scanAndBind() without the reset of state.scanTimer
scanAndBindKeepsTimer(t, id) ==
    /\ timers' = [timers EXCEPT ![t] = @ \ {id}]
    /\ scanTimer' = scanTimer
    /\ dom' = IF isOnSavedPage(url[t]) THEN [dom EXCEPT ![t] = Bind(@, url[t].host)] ELSE dom
    /\ sendCount(t, ScanCount(t))
    /\ obsLast' = ScanRecord(t)

\* scanAndBind(), run by the timer `id` that has just fired
scanAndBind(t, id) ==
    /\ timers' = [timers EXCEPT ![t] = (@ \ {id}) \ {scanTimer[t]}]
    /\ scanTimer' = [scanTimer EXCEPT ![t] = NULL]
    /\ dom' = IF isOnSavedPage(url[t]) THEN [dom EXCEPT ![t] = Bind(@, url[t].host)] ELSE dom
    /\ sendCount(t, ScanCount(t))
    /\ obsLast' = ScanRecord(t)

\* the debounce timer fires
TimerFire(t) ==
    /\ pc[t] # "none"
    /\ Len(msgQ) < MaxQueue
    /\ \E id \in timers[t] : scanAndBind(t, id)
    /\ UNCHANGED <<open, url, pc, channelUp, sigQ, regVars>>

\* bootstrap(): the content script starts in a page of bsky.app, after the
\* service worker has been told that the page is loading
Inject(t, readyState) ==
    /\ t \in open
    /\ pc[t] = "none"
    /\ HasContentScript(url[t])
    /\ \A i \in 1..Len(sigQ) : ~(sigQ[i].tab = t /\ sigQ[i].status = "loading")
    /\ TimerIds \ timers[t] # {}
    /\ IF readyState = "loading"
       THEN /\ pc' = [pc EXCEPT ![t] = "loading"]
            /\ UNCHANGED <<scanTimer, timers>>
       ELSE /\ pc' = [pc EXCEPT ![t] = "ready"]
            /\ scheduleScan(t)
    /\ obsLast' = ObsStep("bootstrap", t, FALSE)
    /\ UNCHANGED <<open, url, lastReportedCount, channelUp, dom, lastSent, msgQ, sigQ, regVars>>

\* the DOMContentLoaded listener of bootstrap
DOMContentLoaded(t) ==
    /\ pc[t] = "loading"
    /\ TimerIds \ timers[t] # {}
    /\ pc' = [pc EXCEPT ![t] = "ready"]
    /\ lastReportedCount' = [lastReportedCount EXCEPT ![t] = NO_REPORT]
    /\ lastSent' = [lastSent EXCEPT ![t] = NO_REPORT]
    /\ scheduleScan(t)
    /\ obsLast' = ObsStep("DOMContentLoaded", t, FALSE)
    /\ UNCHANGED <<open, url, channelUp, dom, msgQ, sigQ, regVars>>

\* the pageshow and focus listeners, and visibilitychange with the document
\* visible or hidden
Trigger(t, event, visible) ==
    /\ pc[t] # "none"
    /\ TimerIds \ timers[t] # {}
    /\ IF event = "visibilitychange" /\ ~visible
       THEN UNCHANGED <<scanTimer, timers>>
       ELSE scheduleScan(t)
    /\ obsLast' = ObsStep(IF event = "visibilitychange" /\ ~visible THEN "hidden" ELSE "trigger",
                           t, FALSE)
    /\ UNCHANGED <<open, url, pc, lastReportedCount, channelUp, dom, lastSent, msgQ, sigQ, regVars>>

RECURSIVE PathTo(_, _)
\* the containers an event for container n passes in the capture phase, the
\* outermost first
PathTo(d, n) == IF d[n].parent = 0 THEN <<n>> ELSE Append(PathTo(d, d[n].parent), n)

\* the places with capture listeners on the way of an event whose target is
\* container n ("container") or the link of container n ("link")
Sites(d, n, target) ==
    [i \in 1..Len(PathTo(d, n)) |-> [kind |-> "container", node |-> PathTo(d, n)[i]]]
    \o (IF target = "link" THEN <<[kind |-> "anchor", node |-> n]>> ELSE <<>>)

\* the auxclick listeners attached at a place, each with the url it was
\* created for; the four preventMiddleClickDefaults listeners are attached
\* in the same call
SiteListeners(d, site) ==
    IF site.kind = "container" THEN d[site.node].containerListeners
    ELSE d[site.node].anchorListeners

\* the places of the path that have listeners
Listening(d, n, target) ==
    SelectSeq(Sites(d, n, target), LAMBDA site : SiteListeners(d, site) # <<>>)

\* preventMiddleClickDefaults on pointerdown/up and mousedown/up: the first
\* place with listeners prevents the default and stops the event
Prevented(d, n, target, button) ==
    button = MIDDLE_BUTTON /\ Listening(d, n, target) # <<>>

\* handleAuxClick without stopPropagation: the listeners of every place on
\* the path open their url
OpenedNoStop(d, n, target, button) ==
    LET RECURSIVE All(_)
        All(sites) == IF sites = <<>> THEN <<>>
                      ELSE SiteListeners(d, Head(sites)) \o All(Tail(sites))
    IN IF button = MIDDLE_BUTTON THEN All(Listening(d, n, target)) ELSE <<>>

\* handleAuxClick(url) on auxclick: the urls window.open is called with, in
\* order; every listener of the first place with listeners runs, and
\* stopPropagation keeps the event from the places after it
Opened(d, n, target, button) ==
    IF button = MIDDLE_BUTTON /\ Listening(d, n, target) # <<>>
    THEN SiteListeners(d, Head(Listening(d, n, target)))
    ELSE <<>>

\* the user presses and releases a mouse button over container n or over
\* its link: pointerdown, mousedown, pointerup, mouseup, then auxclick for
\* a button other than the main one
PressRelease(t, n, target, button) ==
    /\ pc[t] # "none"
    /\ dom[t][n].present
    /\ target = "link" => dom[t][n].href # NoLink
    /\ obsLast' = [op |-> "pressRelease", tab |-> t, pending |-> scanTimer[t] # NULL,
                    sent |-> FALSE, node |-> n, target |-> target, button |-> button,
                    prevented |-> Prevented(dom[t], n, target, button),
                    opened |-> Opened(dom[t], n, target, button)]
    /\ UNCHANGED <<open, url, pc, lastReportedCount, scanTimer, timers, channelUp, dom,
                   lastSent, msgQ, sigQ, regVars>>

\* ------------------------------------------------------------------------
\* Tab State Registry (background.js)
\* ------------------------------------------------------------------------
\* Map.set / Map.delete / Map.has on tabCounts
MapSet(m, k, v) == [x \in DOMAIN m \cup {k} |-> IF x = k THEN v ELSE m[x]]
MapDelete(m, k) == [x \in DOMAIN m \ {k} |-> m[x]]
MapHas(m, k) == k \in DOMAIN m

\* String(n) for an integer n >= 0
Digit(d) == SubSeq("0123456789", d + 1, d + 1)

RECURSIVE DecimalString(_)
DecimalString(n) ==
    IF n < 10 THEN Digit(n) ELSE DecimalString(n \div 10) \o Digit(n % 10)

\* limitCountLabel(count)
limitCountLabel(count) ==
    IF count > MAX_SHOWN_COUNT THEN DecimalString(MAX_SHOWN_COUNT)
    ELSE IF count > 0 THEN DecimalString(count)
    ELSE ""

\* the indicator applyIcon derives from a count: the state of line 210 and
\* the label getIconImages renders
Indicator(count) ==
    [state |-> IF count > 0 THEN "enabled" ELSE "disabled",
     label |-> limitCountLabel(count)]

\* chrome.action.setIcon / setTitle for tabId: rejected (and the rejection
\* caught by applyIcon) when the tab no longer exists
setIcon(ic, tabId, count) ==
    IF tabId \in open THEN [ic EXCEPT ![tabId] = Indicator(count)] ELSE ic

\* applyIcon(tabId, count) without its try/catch: the rejection of setIcon
\* for a tab that no longer exists reaches the caller
applyIconNoCatch(tabId, count) ==
    /\ requested' = [requested EXCEPT ![tabId] = Indicator(count)]
    /\ IF svgPathData # "null"
       THEN /\ icon' = setIcon(icon, tabId, count)
            /\ uncaught' = (uncaught \/ tabId \notin open)
            /\ UNCHANGED fetching
       ELSE /\ fetching' = Append(fetching, [tab |-> tabId, count |-> count])
            /\ UNCHANGED <<icon, uncaught>>
    /\ UNCHANGED svgPathData

\* applyIcon(tabId, count): with the glyph loaded the call reaches setIcon
\* before any other handler runs; otherwise it suspends in the fetch of
\* ensureSvgPathLoaded. The catch of line 218 takes every rejection.
applyIcon(tabId, count) ==
    /\ requested' = [requested EXCEPT ![tabId] = Indicator(count)]
    /\ IF svgPathData # "null"
       THEN /\ icon' = setIcon(icon, tabId, count)
            /\ UNCHANGED fetching
       ELSE /\ fetching' = Append(fetching, [tab |-> tabId, count |-> count])
            /\ UNCHANGED icon
    /\ UNCHANGED <<svgPathData, uncaught>>

\* setTabCount(tabId, count)
setTabCount(tabId, count) ==
    /\ tabCounts' = MapSet(tabCounts, tabId, count)
    /\ applyIcon(tabId, count)

\* resetTab(tabId) re-applying the stored count instead of 0
resetTabKeepsIcon(tabId) ==
    /\ tabCounts' = MapSet(tabCounts, tabId, 0)
    /\ applyIcon(tabId, IF MapHas(tabCounts, tabId) THEN tabCounts[tabId] ELSE 0)

\* resetTab(tabId)
resetTab(tabId) ==
    /\ tabCounts' = MapSet(tabCounts, tabId, 0)
    /\ applyIcon(tabId, 0)

\* the record of a registry step: the listener and its arguments
RegStep(op, t, status, hasUrl, message) ==
    [op |-> op, tab |-> t, status |-> status, url |-> hasUrl, message |-> message]

NoMessage == [type |-> "", count |-> Undefined]

\* the coercion with the display cap applied to the stored value
CoerceCountCapped(v) ==
    IF v.kind = "number" THEN (IF v.val > MAX_SHOWN_COUNT THEN MAX_SHOWN_COUNT ELSE v.val) ELSE 0

\* Number.isFinite(message.count) ? Number(message.count) : 0
CoerceCount(v) == IF v.kind = "number" THEN v.val ELSE 0

\* the listeners suspend in a fetch only while there is room for one more
CanApply == svgPathData # "null" \/ Len(fetching) < MaxQueue

\* the onMessage listener without the test of message.type
onMessageAnyType(message, sender) ==
    /\ CanApply
    /\ IF sender = 0
       THEN UNCHANGED <<tabCounts, svgPathData, fetching, icon, requested, uncaught>>
       ELSE setTabCount(sender, CoerceCount(message.count))
    /\ regLast' = RegStep("onMessage", sender, "", FALSE, message)
    /\ UNCHANGED activating

\* the body of the chrome.runtime.onMessage listener; sender is
\* sender.tab.id, 0 when the message has no originating tab
onMessageCall(message, sender) ==
    /\ IF sender = 0 \/ message.type # "FOUND_COUNT"
       THEN UNCHANGED <<tabCounts, svgPathData, fetching, icon, requested, uncaught>>
       ELSE setTabCount(sender, CoerceCount(message.count))
    /\ regLast' = RegStep("onMessage", sender, "", FALSE, message)
    /\ UNCHANGED activating

\* chrome.runtime.onMessage listener, called while there is room for the
\* applyIcon call it makes
onMessage(message, sender) ==
    /\ CanApply
    /\ onMessageCall(message, sender)

\* the onUpdated listener reacting to the status only
onUpdatedStatusOnly(tabId, status, hasUrl) ==
    /\ CanApply
    /\ IF status = "loading"
       THEN resetTab(tabId)
       ELSE UNCHANGED <<tabCounts, svgPathData, fetching, icon, requested, uncaught>>
    /\ regLast' = RegStep("onUpdated", tabId, status, hasUrl, NoMessage)
    /\ UNCHANGED activating

\* chrome.tabs.onUpdated listener; changeInfo is its status ("" when it has
\* none) and whether it carries a url
onUpdated(tabId, status, hasUrl) ==
    /\ CanApply
    /\ IF status = "loading" \/ hasUrl
       THEN resetTab(tabId)
       ELSE UNCHANGED <<tabCounts, svgPathData, fetching, icon, requested, uncaught>>
    /\ regLast' = RegStep("onUpdated", tabId, status, hasUrl, NoMessage)
    /\ UNCHANGED activating

\* chrome.tabs.onActivated listener, up to its await of chrome.tabs.get
onActivated(tabId) ==
    /\ activating' = activating \cup {tabId}
    /\ regLast' = RegStep("onActivated", tabId, "", FALSE, NoMessage)
    /\ UNCHANGED <<tabCounts, svgPathData, fetching, icon, requested, uncaught>>

\* the onActivated listener storing the count it re-applies
ActivatedResumeStores(tabId) ==
    /\ tabId \in activating
    /\ CanApply
    /\ activating' = activating \ {tabId}
    /\ IF tabId \notin open
       THEN UNCHANGED <<tabCounts, svgPathData, fetching, icon, requested, uncaught>>
       ELSE IF ~isSavedUrl(url[tabId])
       THEN resetTab(tabId)
       ELSE setTabCount(tabId, IF MapHas(tabCounts, tabId) THEN tabCounts[tabId] ELSE 0)
    /\ regLast' = RegStep("activated", tabId, "", FALSE, NoMessage)
    /\ UNCHANGED <<open, url, obsVars, msgQ, sigQ>>

\* chrome.tabs.onActivated listener, from the result of chrome.tabs.get on
ActivatedResume(tabId) ==
    /\ tabId \in activating
    /\ CanApply
    /\ activating' = activating \ {tabId}
    /\ IF tabId \notin open
       THEN UNCHANGED <<tabCounts, svgPathData, fetching, icon, requested, uncaught>>
       ELSE IF ~isSavedUrl(url[tabId])
       THEN resetTab(tabId)
       ELSE /\ applyIcon(tabId, IF MapHas(tabCounts, tabId) THEN tabCounts[tabId] ELSE 0)
            /\ UNCHANGED tabCounts
    /\ regLast' = RegStep("activated", tabId, "", FALSE, NoMessage)
    /\ UNCHANGED <<open, url, obsVars, msgQ, sigQ>>

\* the onRemoved listener storing 0 instead of deleting the entry
onRemovedZeroes(tabId) ==
    /\ tabCounts' = MapSet(tabCounts, tabId, 0)
    /\ regLast' = RegStep("onRemoved", tabId, "", FALSE, NoMessage)
    /\ UNCHANGED <<svgPathData, fetching, activating, icon, requested, uncaught>>

\* the onRemoved listener clearing the whole map
onRemovedClearsAll(tabId) ==
    /\ tabCounts' = <<>>
    /\ regLast' = RegStep("onRemoved", tabId, "", FALSE, NoMessage)
    /\ UNCHANGED <<svgPathData, fetching, activating, icon, requested, uncaught>>

\* chrome.tabs.onRemoved listener
onRemoved(tabId) ==
    /\ tabCounts' = MapDelete(tabCounts, tabId)
    /\ regLast' = RegStep("onRemoved", tabId, "", FALSE, NoMessage)
    /\ UNCHANGED <<svgPathData, fetching, activating, icon, requested, uncaught>>

\* the fetch of one suspended applyIcon call completes: ensureSvgPathLoaded
\* stores the glyph (the fallback circle when the fetch failed) and the call
\* goes on to setIcon
FetchDone(i, ok) ==
    /\ i \in 1..Len(fetching)
    /\ svgPathData' = IF ok THEN "glyph" ELSE "fallback"
    /\ icon' = setIcon(icon, fetching[i].tab, fetching[i].count)
    /\ fetching' = SubSeq(fetching, 1, i - 1) \o SubSeq(fetching, i + 1, Len(fetching))
    /\ regLast' = RegStep("setIcon", fetching[i].tab, "", FALSE, NoMessage)
    /\ UNCHANGED <<tabCounts, activating, requested, uncaught>>
    /\ UNCHANGED <<open, url, obsVars, msgQ, sigQ>>

\* ------------------------------------------------------------------------
\* The page and the browser around the content script
\* ------------------------------------------------------------------------
\* a chrome.tabs event on its way to the service worker
Signal(kind, t, status, hasUrl) == [kind |-> kind, tab |-> t, status |-> status, url |-> hasUrl]

\* the page of tab t goes away, and its content script with it
Unload(t) ==
    /\ pc' = [pc EXCEPT ![t] = "none"]
    /\ lastReportedCount' = [lastReportedCount EXCEPT ![t] = NO_REPORT]
    /\ scanTimer' = [scanTimer EXCEPT ![t] = NULL]
    /\ timers' = [timers EXCEPT ![t] = {}]
    /\ channelUp' = [channelUp EXCEPT ![t] = TRUE]
    /\ dom' = [dom EXCEPT ![t] = EmptyDom]
    /\ lastSent' = [lastSent EXCEPT ![t] = NO_REPORT]

\* a full page load of u in tab t (also a reload, when u is the current url)
HardNavigate(t, u) ==
    /\ t \in open
    /\ Len(sigQ) < MaxQueue
    /\ url' = [url EXCEPT ![t] = u]
    /\ Unload(t)
    /\ sigQ' = Append(sigQ, Signal("updated", t, "loading", u # url[t]))
    /\ UNCHANGED <<open, msgQ, obsLast, regVars>>

\* history.pushState / replaceState by the page: no event reaches the
\* content script
PushState(t, u) ==
    /\ pc[t] # "none"
    /\ u.host = url[t].host
    /\ u # url[t]
    /\ Len(sigQ) < MaxQueue
    /\ url' = [url EXCEPT ![t] = u]
    /\ sigQ' = Append(sigQ, Signal("updated", t, "", TRUE))
    /\ UNCHANGED <<open, obsVars, msgQ, regVars>>

\* a back/forward navigation within the document: the popstate listener
PopState(t, u) ==
    /\ pc[t] # "none"
    /\ u.host = url[t].host
    /\ u # url[t]
    /\ Len(sigQ) < MaxQueue
    /\ TimerIds \ timers[t] # {}
    /\ url' = [url EXCEPT ![t] = u]
    /\ sigQ' = Append(sigQ, Signal("updated", t, "", TRUE))
    /\ scheduleScan(t)
    /\ obsLast' = ObsStep("popstate", t, FALSE)
    /\ UNCHANGED <<open, pc, lastReportedCount, channelUp, dom, lastSent, msgQ, regVars>>

\* the tab reports a change that is neither a load nor a new url
TabChanged(t, status) ==
    /\ t \in open
    /\ Len(sigQ) < MaxQueue
    /\ sigQ' = Append(sigQ, Signal("updated", t, status, FALSE))
    /\ UNCHANGED <<open, url, obsVars, msgQ, regVars>>

\* the user switches to tab t
Activate(t) ==
    /\ t \in open
    /\ Len(sigQ) < MaxQueue
    /\ sigQ' = Append(sigQ, Signal("activated", t, "", FALSE))
    /\ UNCHANGED <<open, url, obsVars, msgQ, regVars>>

\* the user closes tab t
CloseTab(t) ==
    /\ t \in open
    /\ Len(sigQ) < MaxQueue
    /\ open' = open \ {t}
    /\ Unload(t)
    /\ sigQ' = Append(sigQ, Signal("removed", t, "", FALSE))
    /\ UNCHANGED <<url, msgQ, obsLast, regVars>>

\* the extension context of the page is invalidated: sendMessage throws
\* from now on
ChannelDown(t) ==
    /\ pc[t] # "none"
    /\ channelUp[t]
    /\ channelUp' = [channelUp EXCEPT ![t] = FALSE]
    /\ UNCHANGED <<open, url, pc, lastReportedCount, scanTimer, timers, dom, lastSent,
                   obsLast, msgQ, sigQ, regVars>>

\* the MutationObserver callback for a record with added nodes
OnMutationAdded(t) ==
    IF pc[t] # "none"
    THEN /\ scheduleScan(t)
         /\ obsLast' = ObsStep("mutation", t, FALSE)
    ELSE UNCHANGED <<scanTimer, timers, obsLast>>

\* the page renders container n
DomAdd(t, n, card) ==
    /\ t \in open
    /\ HasContentScript(url[t])
    /\ ~dom[t][n].present
    /\ card.parent # 0 => (card.parent < n /\ dom[t][card.parent].present)
    /\ TimerIds \ timers[t] # {}
    /\ dom' = [dom EXCEPT ![t][n] = card]
    /\ OnMutationAdded(t)
    /\ UNCHANGED <<open, url, pc, lastReportedCount, channelUp, lastSent, msgQ, sigQ, regVars>>

\* the page removes container n with everything inside it: the
\* MutationObserver callback finds no added nodes and does nothing
DomRemove(t, n) ==
    /\ dom[t][n].present
    /\ dom' = [dom EXCEPT ![t] = [m \in Nodes |-> IF Inside(dom[t], m, n) THEN Absent ELSE @[m]]]
    /\ UNCHANGED <<open, url, pc, lastReportedCount, scanTimer, timers, channelUp, lastSent,
                   obsLast, msgQ, sigQ, regVars>>

\* a style change shows or hides container n: not a childList mutation
DomSetVisible(t, n, vis) ==
    /\ dom[t][n].present
    /\ dom[t][n].visible # vis
    /\ dom' = [dom EXCEPT ![t][n].visible = vis]
    /\ UNCHANGED <<open, url, pc, lastReportedCount, scanTimer, timers, channelUp, lastSent,
                   obsLast, msgQ, sigQ, regVars>>

\* a style change shows or hides the link of container n
DomSetLinkVisible(t, n, vis) ==
    /\ dom[t][n].present
    /\ dom[t][n].href # NoLink
    /\ dom[t][n].linkVisible # vis
    /\ dom' = [dom EXCEPT ![t][n].linkVisible = vis]
    /\ UNCHANGED <<open, url, pc, lastReportedCount, scanTimer, timers, channelUp, lastSent,
                   obsLast, msgQ, sigQ, regVars>>

\* the rendering framework reuses container n for another post: it sets the
\* href of the link, an attribute change the MutationObserver is not told of
DomSetHref(t, n, h) ==
    /\ dom[t][n].present
    /\ dom[t][n].href # NoLink
    /\ dom[t][n].href # h
    /\ dom' = [dom EXCEPT ![t][n].href = h]
    /\ UNCHANGED <<open, url, pc, lastReportedCount, scanTimer, timers, channelUp, lastSent,
                   obsLast, msgQ, sigQ, regVars>>

\* ------------------------------------------------------------------------
\* Delivery to the service worker
\* ------------------------------------------------------------------------
DeliverMessage ==
    /\ msgQ # <<>>
    /\ onMessage(Head(msgQ).message, Head(msgQ).sender)
    /\ msgQ' = Tail(msgQ)
    /\ UNCHANGED <<open, url, obsVars, sigQ>>

DeliverSignal ==
    /\ sigQ # <<>>
    /\ LET s == Head(sigQ)
       IN CASE s.kind = "updated" -> onUpdated(s.tab, s.status, s.url)
            [] s.kind = "activated" -> onActivated(s.tab)
            [] s.kind = "removed" -> onRemoved(s.tab)
    /\ sigQ' = Tail(sigQ)
    /\ UNCHANGED <<open, url, obsVars, msgQ>>

\* the listeners called with every input the browser can hand them
ReceiveMessage(message, sender) ==
    /\ onMessage(message, sender)
    /\ UNCHANGED <<open, url, obsVars, msgQ, sigQ>>

\* the listener called while earlier applyIcon calls are still suspended in
\* the fetch of the glyph
ReceiveOverlapping(message, sender) ==
    /\ svgPathData # "null" \/ Len(fetching) < MaxFetches
    /\ onMessageCall(message, sender)
    /\ UNCHANGED <<open, url, obsVars, msgQ, sigQ>>

TabUpdated(t, status, hasUrl) ==
    /\ t \in open
    /\ onUpdated(t, status, hasUrl)
    /\ UNCHANGED <<open, url, obsVars, msgQ, sigQ>>

TabActivated(t) ==
    /\ t \in open
    /\ onActivated(t)
    /\ UNCHANGED <<open, url, obsVars, msgQ, sigQ>>

TabRemoved(t) ==
    /\ t \in open
    /\ open' = open \ {t}
    /\ onRemoved(t)
    /\ UNCHANGED <<url, obsVars, msgQ, sigQ>>

Navigated(t, u) ==
    /\ t \in open
    /\ u # url[t]
    /\ url' = [url EXCEPT ![t] = u]
    /\ UNCHANGED <<open, obsVars, msgQ, sigQ, regVars>>

\* ------------------------------------------------------------------------
\* Specifications
\* ------------------------------------------------------------------------
\* the cards a page renders
SimpleCards == {NewCard(TRUE, 0, h, TRUE) : h \in {HrefPost1, HrefPost2}}

Statuses == {"loading", "complete", ""}
MessageCounts == {Num(0), Num(7), Num(150), NotANumber, Undefined}
Messages == {FoundCount(v) : v \in MessageCounts} \cup {[type |-> "PING", count |-> Undefined]}

\* the content script of one tab and its page
ObserverNext(t) ==
    \/ \E r \in {"loading", "complete"} : Inject(t, r)
    \/ DOMContentLoaded(t)
    \/ \E e \in {"pageshow", "focus", "visibilitychange"}, v \in BOOLEAN : Trigger(t, e, v)
    \/ TimerFire(t)
    \/ \E u \in Urls : PopState(t, u)
    \/ \E u \in Urls : PushState(t, u)
    \/ \E n \in Nodes, c \in SimpleCards : DomAdd(t, n, c)
    \/ \E n \in Nodes : DomRemove(t, n)

\* the browser around one tab, the user never switching tabs
PageNext(t) ==
    \/ \E u \in Urls : HardNavigate(t, u)
    \/ TabChanged(t, "complete")
    \/ CloseTab(t)

\* the service worker taking what is in flight
RegistryNext ==
    \/ DeliverMessage
    \/ DeliverSignal
    \/ \E i \in 1..MaxQueue : FetchDone(i, TRUE)

\* one bsky.app tab whose page renders one card, its content script and the
\* service worker
ObserverSpecNext ==
    \/ \E u \in {SavedUrl, HomeUrl} : HardNavigate(1, u)
    \/ \E r \in {"loading", "complete"} : Inject(1, r)
    \/ DOMContentLoaded(1)
    \/ \E e \in {"pageshow", "focus", "visibilitychange"}, v \in BOOLEAN : Trigger(1, e, v)
    \/ TimerFire(1)
    \/ \E u \in Urls : PopState(1, u)
    \/ \E u \in Urls : PushState(1, u)
    \/ DomAdd(1, 1, NewCard(TRUE, 0, HrefPost1, TRUE))
    \/ DomRemove(1, 1)
    \/ RegistryNext

SpecObserver == Init /\ [][ObserverSpecNext]_vars

\* the content script of a tab that stays on bsky.app, with every trigger
\* source of its debounced scan
DebounceSpecNext ==
    \/ \E r \in {"loading", "complete"} : Inject(1, r)
    \/ DOMContentLoaded(1)
    \/ \E e \in {"pageshow", "focus", "visibilitychange"}, v \in BOOLEAN : Trigger(1, e, v)
    \/ \E u \in Urls : PopState(1, u)
    \/ DomAdd(1, 1, NewCard(TRUE, 0, HrefPost1, TRUE))
    \/ DomRemove(1, 1)
    \/ TimerFire(1)
    \/ RegistryNext

\* the tab opens on the saved page; the browser fires a pending timer,
\* delivers a message in flight and completes a fetch, each within finite
\* time
LiveSpecDebounce ==
    /\ InitAt(SavedUrl) /\ [][DebounceSpecNext]_vars
    /\ WF_vars(TimerFire(1))
    /\ WF_vars(DeliverMessage)
    /\ WF_vars(\E i \in 1..MaxQueue : FetchDone(i, TRUE))

\* the same with the user switching to the tab at any time
Next ==
    \/ ObserverNext(1)
    \/ PageNext(1)
    \/ Activate(1)
    \/ RegistryNext
    \/ \E t \in Tabs : ActivatedResume(t)

Spec == Init /\ [][Next]_vars

\* the service worker alone: its message and tab-updated listeners called in
\* any order with any arguments
RegistrySpecNext ==
    \/ \E m \in Messages, sender \in 0..NumTabs : ReceiveMessage(m, sender)
    \/ \E t \in Tabs, st \in Statuses, hu \in BOOLEAN : TabUpdated(t, st, hu)
    \/ \E i \in 1..MaxQueue, ok \in BOOLEAN : FetchDone(i, ok)

SpecRegistry == Init /\ [][RegistrySpecNext]_vars

\* the count the saved page of each tab holds
ReportOf(t) == IF t = 1 THEN Num(3) ELSE Num(7)

\* the service worker and tabs that show the saved page: each open tab
\* reporting its count, reloading, the user switching between tabs and
\* closing them
TabsSpecNext ==
    \/ \E sender \in open : ReceiveMessage(FoundCount(ReportOf(sender)), sender)
    \/ \E t \in Tabs : TabUpdated(t, "loading", FALSE)
    \/ \E t \in Tabs : TabActivated(t)
    \/ \E t \in Tabs : ActivatedResume(t)
    \/ \E t \in Tabs : TabRemoved(t)
    \/ \E i \in 1..MaxQueue : FetchDone(i, TRUE)

SpecTabs == InitAt(SavedUrl) /\ [][TabsSpecNext]_vars

\* the service worker and tabs that move between the saved page and the
\* home page of bsky.app without reloading: reports arriving at any time,
\* the user switching between tabs
ActivationSpecNext ==
    \/ \E sender \in Tabs : ReceiveMessage(FoundCount(ReportOf(sender)), sender)
    \/ \E t \in Tabs, u \in {SavedUrl, HomeUrl} : Navigated(t, u)
    \/ \E t \in Tabs : TabActivated(t)
    \/ \E t \in Tabs : ActivatedResume(t)
    \/ \E i \in 1..MaxQueue : FetchDone(i, TRUE)

SpecActivation == InitAt(SavedUrl) /\ [][ActivationSpecNext]_vars

\* the containers a page can hold: visible cards with each kind of link,
\* a hidden card, a card whose link is hidden, a card whose link follows
\* what is nested in it; each at the top level or nested in an earlier one
ScanCards ==
    {Card(TRUE, par, h, TRUE, FALSE) : par \in 0..(MaxNodes - 1), h \in Hrefs}
    \cup {Card(FALSE, par, HrefPost1, TRUE, FALSE) : par \in 0..(MaxNodes - 1)}
    \cup {Card(TRUE, par, HrefPost1, FALSE, FALSE) : par \in 0..(MaxNodes - 1)}
    \cup {Card(TRUE, par, HrefPost1, TRUE, TRUE) : par \in 0..(MaxNodes - 1)}

\* the pages built from them: a nested container follows the container it
\* is nested in
ScanDoms ==
    {d \in [Nodes -> ScanCards \cup {Absent}] :
        \A n \in Nodes :
            (d[n].present /\ d[n].parent # 0) => (d[n].parent < n /\ d[d[n].parent].present)}

\* the content script over a saved page that does not change: it starts,
\* scans, and scans again on every focus
ScanSpecNext ==
    \/ Inject(1, "complete")
    \/ Trigger(1, "focus", TRUE)
    \/ TimerFire(1)
    \/ DeliverMessage
    \/ \E i \in 1..MaxQueue : FetchDone(i, TRUE)

SpecScan == (\E d \in ScanDoms : InitPage(SavedUrl, d)) /\ [][ScanSpecNext]_vars

\* the content script over a saved page that does not change: it starts
\* and scans, the user pressing any mouse button over any container or
\* link, before the scan and after it
ClickSpecNext ==
    \/ Inject(1, "complete")
    \/ TimerFire(1)
    \/ \E n \in Nodes, target \in {"container", "link"}, button \in 0..2 :
          PressRelease(1, n, target, button)

SpecClicks == (\E d \in ScanDoms : InitPage(SavedUrl, d)) /\ [][ClickSpecNext]_vars

\* the content script of a tab that stays on the saved page while the page
\* renders cards and removes them, and the service worker
MutationSpecNext ==
    \/ Inject(1, "complete")
    \/ \E n \in Nodes, c \in SimpleCards : DomAdd(1, n, c)
    \/ \E n \in Nodes : DomRemove(1, n)
    \/ TimerFire(1)
    \/ DeliverMessage
    \/ \E i \in 1..MaxQueue : FetchDone(i, TRUE)

SpecMutations == InitAt(SavedUrl) /\ [][MutationSpecNext]_vars

\* pages of visible cards with visible qualifying links, top-level or nested
VisibilityDoms ==
    {d \in ScanDoms :
        \A n \in Nodes :
            d[n].present => /\ d[n].visible /\ d[n].linkVisible /\ ~d[n].linkLast
                            /\ d[n].href = HrefPost1}

\* the content script over a saved page whose containers and links are
\* shown and hidden by style changes between the scans
VisibilitySpecNext ==
    \/ Inject(1, "complete")
    \/ Trigger(1, "focus", TRUE)
    \/ TimerFire(1)
    \/ \E n \in Nodes, vis \in BOOLEAN : DomSetVisible(1, n, vis)
    \/ \E n \in Nodes, vis \in BOOLEAN : DomSetLinkVisible(1, n, vis)
    \/ DeliverMessage
    \/ \E i \in 1..MaxQueue : FetchDone(i, TRUE)

SpecVisibility == (\E d \in VisibilityDoms : InitPage(SavedUrl, d)) /\ [][VisibilitySpecNext]_vars

\* the values a FOUND_COUNT message can carry as its count, finite numbers
\* below zero included
AnyCounts == MessageCounts \cup {Num(0 - 2)}

\* the service worker receiving FOUND_COUNT messages with any count from any
\* tab, the tabs reloading and the user switching between them
AnyCountSpecNext ==
    \/ \E v \in AnyCounts, sender \in Tabs : ReceiveMessage(FoundCount(v), sender)
    \/ \E t \in Tabs : TabUpdated(t, "loading", FALSE)
    \/ \E t \in Tabs : TabActivated(t)
    \/ \E t \in Tabs : ActivatedResume(t)
    \/ \E i \in 1..MaxQueue : FetchDone(i, TRUE)

SpecAnyCounts == Init /\ [][AnyCountSpecNext]_vars

\* the content script of a tab on the saved page whose extension context
\* can be invalidated at any time, the page rendering cards and the user
\* coming back to the tab
ChannelSpecNext ==
    \/ Inject(1, "complete")
    \/ \E n \in Nodes, c \in SimpleCards : DomAdd(1, n, c)
    \/ Trigger(1, "focus", TRUE)
    \/ TimerFire(1)
    \/ ChannelDown(1)
    \/ DeliverMessage
    \/ \E i \in 1..MaxQueue : FetchDone(i, TRUE)

SpecChannel == InitAt(SavedUrl) /\ [][ChannelSpecNext]_vars

\* the service worker just started, the glyph not loaded yet: reports
\* arrive faster than the fetches of the glyph complete, and the fetches
\* complete in any order
OverlapSpecNext ==
    \/ \E v \in {Num(3), Num(7)}, sender \in Tabs : ReceiveOverlapping(FoundCount(v), sender)
    \/ \E i \in 1..MaxFetches : FetchDone(i, TRUE)

SpecOverlap == Init /\ [][OverlapSpecNext]_vars

\* the content script over a saved page whose cards are re-used for other
\* posts between the scans, the user pressing the middle button or the main
\* one over any container or link
RerenderSpecNext ==
    \/ Inject(1, "complete")
    \/ \E n \in Nodes, c \in SimpleCards : DomAdd(1, n, c)
    \/ \E n \in Nodes, h \in {HrefPost1, HrefPost2} : DomSetHref(1, n, h)
    \/ Trigger(1, "focus", TRUE)
    \/ TimerFire(1)
    \/ \E n \in Nodes, target \in {"container", "link"}, button \in 0..1 :
          PressRelease(1, n, target, button)
    \/ DeliverMessage
    \/ \E i \in 1..MaxQueue : FetchDone(i, TRUE)

SpecRerender == InitAt(SavedUrl) /\ [][RerenderSpecNext]_vars

\* the service worker with everything that makes applying an indicator
\* fail: the fetch of the glyph failing, tabs closing while an apply is
\* suspended, reports of closed tabs still arriving
FailureSpecNext ==
    \/ \E sender \in Tabs : ReceiveMessage(FoundCount(ReportOf(sender)), sender)
    \/ \E t \in Tabs : TabUpdated(t, "loading", FALSE)
    \/ \E t \in Tabs : TabRemoved(t)
    \/ \E i \in 1..MaxQueue, ok \in BOOLEAN : FetchDone(i, ok)

SpecFailures == Init /\ [][FailureSpecNext]_vars

\* ------------------------------------------------------------------------
\* Properties
\* ------------------------------------------------------------------------
\* the step ran scanAndBind in tab t: the scan is the last observer step and
\* its timer is gone
ScanStep(t) ==
    /\ obsLast'.op = "scanAndBind"
    /\ obsLast'.tab = t
    /\ timers'[t] # timers[t]

\* the step put a message of tab t on the channel
SendStep(t) ==
    /\ Len(msgQ') > Len(msgQ)
    /\ msgQ'[Len(msgQ')].sender = t

SentCount == msgQ'[Len(msgQ')].message.count

\* at most one timer, and state.scanTimer names it
OneScanPending(t) ==
    /\ Cardinality(timers[t]) <= 1
    /\ scanTimer[t] = NULL => timers[t] = {}
    /\ scanTimer[t] # NULL => timers[t] = {scanTimer[t]}

\* C1: in the Page Observer at most one scan is pending at any time; while a
\* scan is pending no step other than the scan itself (or the page going
\* away) adds, removes or replaces the timer, so scheduleScan is a no-op
\* then; and once scanAndBind has run no scan is pending until the next
\* trigger.
C1_AtMostOneScanPending ==
    [][\A t \in Tabs :
        /\ OneScanPending(t)'
        /\ (scanTimer[t] # NULL /\ pc'[t] # "none" /\ ~ScanStep(t))
              => (scanTimer'[t] = scanTimer[t] /\ timers'[t] = timers[t])
        /\ (obsLast'.op = "scanAndBind" /\ obsLast'.tab = t)
              => (scanTimer'[t] = NULL /\ timers'[t] = {})]_vars

\* a trigger arrived while a scan was pending, and one timer is pending
C1_Witness ==
    /\ obsLast.op = "trigger"
    /\ obsLast.pending
    /\ scanTimer[obsLast.tab] # NULL
    /\ Cardinality(timers[obsLast.tab]) = 1

\* C3: a content script never puts on the channel a FOUND_COUNT message whose
\* count equals the count of the last message it sent since its
\* last-reported memory was last invalidated.
C3_NoRepeatedReport ==
    [][\A t \in Tabs : SendStep(t) => (SentCount.kind = "number" /\ SentCount.val # lastSent[t])]_vars

\* a scan computed the count already reported and sent nothing
C3_Witness ==
    /\ obsLast.op = "scanAndBind"
    /\ ~obsLast.sent
    /\ lastSent[obsLast.tab] >= 0
    /\ ScanCount(obsLast.tab) = lastSent[obsLast.tab]
    /\ msgQ = <<>>

\* C4 (as claimed): the scan that follows a detected route change (popstate)
\* sends a FOUND_COUNT message, whatever count it computes.
C4_RouteChangeReasserts ==
    [][\A t \in Tabs :
        (ScanStep(t) /\ obsLast.op = "popstate" /\ obsLast.tab = t) => SendStep(t)]_vars

\* C5: a scan that runs while the location is off the monitored route
\* leaves the DOM without new handlers, computes 0 whatever the DOM holds,
\* and a message it sends carries 0.
C5_OffRouteScanReportsZero ==
    [][\A t \in Tabs :
        (ScanStep(t) /\ ~(url[t].host = "bsky.app" /\ StartsWith(url[t].path, "/saved")))
            => /\ dom'[t] = dom[t]
               /\ lastReportedCount'[t] = 0
               /\ SendStep(t) => SentCount = Num(0)]_vars

\* a scan off the route has just reported 0 over a page that still holds a
\* card counted and handled on the route
C5_Witness ==
    /\ obsLast.op = "scanAndBind"
    /\ obsLast.sent
    /\ url[obsLast.tab] = HomeUrl
    /\ lastReportedCount[obsLast.tab] = 0
    /\ \E n \in Nodes : dom[obsLast.tab][n].handledContainer
    /\ Cardinality(UniqueHrefs(dom[obsLast.tab])) > 0

\* nothing is in flight or suspended, the content script of tab t has scanned
\* the page as it is now, and no scan is pending: no further step of the
\* program is due
Settled(t) ==
    /\ t \in open
    /\ pc[t] = "ready"
    /\ timers[t] = {}
    /\ lastReportedCount[t] = ScanCount(t)
    /\ msgQ = <<>>
    /\ sigQ = <<>>
    /\ fetching = <<>>
    /\ activating = {}

\* C6 (as claimed): once all messages and lifecycle signals are delivered and
\* nothing further is due, the count the Registry stores for a tab is the
\* count its Observer computed in its latest scan.
C6_RegistryConvergesToObserver ==
    \A t \in Tabs :
        Settled(t) => (MapHas(tabCounts, t) /\ tabCounts[t] = lastReportedCount[t])

\* the last step of the content script of tab t was a re-scan trigger
Triggered(t) ==
    /\ obsLast.tab = t
    /\ obsLast.op \in {"trigger", "popstate", "mutation"}
    /\ pc[t] # "none"

\* C2: in the tab whose content script runs, after every re-scan trigger
\* (DOM mutation, pageshow, popstate, focus, visibility regained) a scan
\* eventually runs; the debounce timer is assumed to fire.
C2_ScanFollowsTrigger ==
    Triggered(1) ~> (obsLast.tab = 1 /\ obsLast.op = "scanAndBind")

\* a trigger that found a scan pending was followed by the scan
C2_Witness ==
    /\ obsLast.op = "scanAndBind"
    /\ obsLast.pending
    /\ pc[obsLast.tab] = "ready"
    /\ timers[obsLast.tab] = {}
    /\ lastReportedCount[obsLast.tab] > 0

Disabled == [state |-> "disabled", label |-> ""]

\* the last registry step was a report of 0 from tab t
ReportedZero(r, t) ==
    /\ r.op = "onMessage"
    /\ r.tab = t
    /\ r.message = FoundCount(Num(0))

\* the last registry step was a tab-updated signal for t that starts a load
\* or carries a url
WasReset(r, t) ==
    /\ r.op = "onUpdated"
    /\ r.tab = t
    /\ (r.status = "loading" \/ r.url)

\* C7: a report of 0 and a resetOnNavigationStart for the same tab, handled
\* one right after the other in either order, end with stored count 0 and
\* the disabled indicator without label for that tab (shown on the toolbar
\* once the glyph is loaded and while the tab exists), and the second of the
\* two changes nothing the first has set.
C7_ReportZeroAndResetCommute ==
    [][\A t \in Tabs :
        ((WasReset(regLast, t) /\ ReportedZero(regLast', t))
            \/ (ReportedZero(regLast, t) /\ WasReset(regLast', t)))
        => /\ MapHas(tabCounts', t)
           /\ tabCounts'[t] = 0
           /\ requested'[t] = Disabled
           /\ (svgPathData # "null" /\ t \in open) => icon'[t] = Disabled
           /\ tabCounts' = tabCounts
           /\ requested' = requested]_vars

\* the reset has been handled while the content script's report of 0 from
\* the same tab is still in flight
C7_Witness ==
    /\ msgQ # <<>>
    /\ Head(msgQ).message = FoundCount(Num(0))
    /\ WasReset(regLast, Head(msgQ).sender)
    /\ tabCounts[Head(msgQ).sender] = 0
    /\ icon[Head(msgQ).sender] = Disabled

\* C8: a step of the Registry for one tab leaves the record of every other
\* tab as it was (present or absent, same count); and an activation of a tab
\* showing the saved page applies the indicator of that tab's own count.
C8_PerTabIsolation ==
    [][\A b \in Tabs :
        /\ regLast'.tab # b
             => /\ MapHas(tabCounts', b) <=> MapHas(tabCounts, b)
                /\ MapHas(tabCounts, b) => tabCounts'[b] = tabCounts[b]
        /\ (b \in activating /\ b \notin activating' /\ b \in open
              /\ StartsWith("https://" \o url[b].host \o url[b].path, "https://bsky.app/saved")
              /\ MapHas(tabCounts, b))
             => /\ requested'[b].state = (IF tabCounts[b] > 0 THEN "enabled" ELSE "disabled")
                /\ tabCounts[b] \in 1..MAX_SHOWN_COUNT => requested'[b].label = DecimalString(tabCounts[b])
                /\ svgPathData # "null" => icon'[b] = requested'[b]]_vars

\* tabs 1 and 2 reported 3 and 7, tab 2 was closed, and tab 1 keeps its
\* record and shows its own count after being activated
C8_Witness ==
    /\ regLast.op = "activated"
    /\ regLast.tab = 1
    /\ 2 \notin open
    /\ ~MapHas(tabCounts, 2)
    /\ MapHas(tabCounts, 1)
    /\ tabCounts[1] = 3
    /\ icon[1] = [state |-> "enabled", label |-> "3"]
    /\ icon[2] = [state |-> "enabled", label |-> "7"]

\* C9: after the message listener has handled a FOUND_COUNT message with a
\* resolvable tab, the count stored for the tab is the reported count when
\* that is a finite number and 0 otherwise; counts above the display cap are
\* stored in full.
C9_ReportStoresCount ==
    (regLast.op = "onMessage" /\ regLast.tab # 0 /\ regLast.message.type = "FOUND_COUNT")
        => /\ MapHas(tabCounts, regLast.tab)
           /\ tabCounts[regLast.tab] =
                (IF regLast.message.count.kind = "number" THEN regLast.message.count.val ELSE 0)

\* a report of 150 is stored as 150 while the label is capped
C9_Witness ==
    /\ regLast.op = "onMessage"
    /\ regLast.message = FoundCount(Num(150))
    /\ regLast.tab # 0
    /\ tabCounts[regLast.tab] = 150
    /\ requested[regLast.tab].label = "99"

\* C10: a tab-updated signal with status 'loading' or with a url sets the
\* stored count of the tab to 0 and applies the disabled indicator; one with
\* neither leaves the records and the indicators unchanged.
C10_ResetOnNavigationStart ==
    [][\A t \in Tabs :
        /\ WasReset(regLast', t)
             => /\ MapHas(tabCounts', t)
                /\ tabCounts'[t] = 0
                /\ requested'[t] = Disabled
                /\ (svgPathData # "null" /\ t \in open) => icon'[t] = Disabled
        /\ (regLast'.op = "onUpdated" /\ regLast'.tab = t /\ ~WasReset(regLast', t))
             => /\ tabCounts' = tabCounts
                /\ requested' = requested
                /\ icon' = icon
                /\ fetching' = fetching]_vars

\* a url change without status reset a tab whose stored count was 7
C10_Witness ==
    /\ regLast.op = "onUpdated"
    /\ regLast.status = ""
    /\ regLast.url
    /\ tabCounts[regLast.tab] = 0
    /\ icon[regLast.tab] = Disabled
    /\ \E t \in Tabs : t # regLast.tab /\ MapHas(tabCounts, t) /\ tabCounts[t] = 7

\* the count stored for tab t, 0 when there is no record
StoredCount(m, t) == IF MapHas(m, t) THEN m[t] ELSE 0

\* the indicator of a count below the display cap, written out
ShownFor(c) ==
    [state |-> IF c > 0 THEN "enabled" ELSE "disabled",
     label |-> IF c > 0 THEN DecimalString(c) ELSE ""]

\* the step is the onActivated listener of tab t going on after
\* chrome.tabs.get, the tab still open
ActivationStep(t) ==
    /\ t \in activating
    /\ t \notin activating'
    /\ t \in open

\* C11 (as claimed): onActivated leaves the count stored for the tab as it
\* was (0 when there is no record) and applies the indicator of that count,
\* whatever the tab and the stored count.
C11_ActivationKeepsCount ==
    [][\A t \in Tabs :
        ActivationStep(t)
            => /\ StoredCount(tabCounts', t) = StoredCount(tabCounts, t)
               /\ requested'[t] = ShownFor(StoredCount(tabCounts, t))]_vars

\* C11 (amended): for a tab whose url is the saved page, onActivated leaves
\* the mapping as it was and applies the indicator of the stored count (of 0
\* without a record); for any other tab it stores 0 and applies the disabled
\* indicator; the record of every other tab is unchanged.
C11_ActivationBySavedUrl ==
    [][\A t \in Tabs :
        ActivationStep(t)
            => /\ (url[t].host = "bsky.app" /\ StartsWith(url[t].path, "/saved"))
                    => /\ tabCounts' = tabCounts
                       /\ requested'[t] = ShownFor(StoredCount(tabCounts, t))
               /\ ~(url[t].host = "bsky.app" /\ StartsWith(url[t].path, "/saved"))
                    => /\ MapHas(tabCounts', t)
                       /\ tabCounts'[t] = 0
                       /\ requested'[t] = Disabled
                       /\ \A b \in Tabs \ {t} :
                            /\ MapHas(tabCounts', b) <=> MapHas(tabCounts, b)
                            /\ MapHas(tabCounts, b) => tabCounts'[b] = tabCounts[b]
               /\ svgPathData # "null" => icon'[t] = requested'[t]]_vars

\* both cases have happened: a tab on the saved page was activated and shows
\* its stored count, after a tab on the home page was activated and lost the
\* count it had stored
C11_Witness ==
    /\ regLast.op = "activated"
    /\ regLast.tab = 1
    /\ url[1] = SavedUrl
    /\ MapHas(tabCounts, 1)
    /\ tabCounts[1] = 3
    /\ icon[1] = [state |-> "enabled", label |-> "3"]
    /\ url[2] = HomeUrl
    /\ MapHas(tabCounts, 2)
    /\ tabCounts[2] = 0
    /\ icon[2] = Disabled

\* C12: the onRemoved listener of tab t leaves the mapping without an entry
\* for t and with every other entry as it was.
C12_RemovedDeletesRecord ==
    [][\A t \in Tabs :
        (t \in open /\ t \notin open')
            => /\ ~MapHas(tabCounts', t)
               /\ \A b \in Tabs \ {t} :
                    /\ MapHas(tabCounts', b) <=> MapHas(tabCounts, b)
                    /\ MapHas(tabCounts, b) => tabCounts'[b] = tabCounts[b]]_vars

\* a tab that had reported its count was closed and has no record, while
\* the other tab keeps its 3
C12_Witness ==
    /\ regLast.op = "onRemoved"
    /\ regLast.tab = 2
    /\ requested[2] = [state |-> "enabled", label |-> "7"]
    /\ ~MapHas(tabCounts, 2)
    /\ MapHas(tabCounts, 1)
    /\ tabCounts[1] = 3

\* C13: a message without an originating tab, or of a type other than
\* FOUND_COUNT, leaves the mapping as it was and applies no indicator (none
\* derived, none suspended in the fetch, none shown).
C13_IgnoresUnresolvedMessages ==
    [][(regLast'.op = "onMessage"
          /\ (regLast'.tab = 0 \/ regLast'.message.type # "FOUND_COUNT"))
        => /\ tabCounts' = tabCounts
           /\ requested' = requested
           /\ icon' = icon
           /\ fetching' = fetching]_vars

\* a FOUND_COUNT of 150 without a tab has been handled: nothing is stored
\* for it, tab 2 keeps its 7 and its indicator, tab 1 has had no indicator
C13_Witness ==
    /\ regLast.op = "onMessage"
    /\ regLast.tab = 0
    /\ regLast.message = FoundCount(Num(150))
    /\ DOMAIN tabCounts = {2}
    /\ tabCounts[2] = 7
    /\ requested[1] = NoIndicator
    /\ icon[2] = [state |-> "enabled", label |-> "7"]

\* the label the documentation gives for a count
ClaimedLabel(c) ==
    IF c <= 0 THEN ""
    ELSE IF c <= 99 THEN DecimalString(c)
    ELSE "99+"

\* C14 (as claimed): the label applied for a reported count is empty for 0,
\* the decimal count for 1..99 and "99+" for every count above 99.
C14_LabelOfCount ==
    (regLast.op = "onMessage" /\ regLast.tab # 0 /\ regLast.message.type = "FOUND_COUNT")
        => requested[regLast.tab].label = ClaimedLabel(tabCounts[regLast.tab])

\* C15: no rejection leaves applyIcon for its caller; the completion of a
\* suspended apply, failed or not, leaves the mapping as it was; and every
\* report and every reset the Registry handles, after failures too, is
\* stored and applied: a report stores its count, a reset stores 0, and an
\* open tab shows the indicator once the glyph or its fallback is there.
C15_ApplyFailureContained ==
    [][/\ uncaught' = FALSE
       /\ Len(fetching') < Len(fetching) => tabCounts' = tabCounts
       /\ \A t \in Tabs :
            /\ (regLast'.op = "onMessage" /\ regLast'.tab = t)
                 => /\ MapHas(tabCounts', t)
                    /\ tabCounts'[t] = regLast'.message.count.val
                    /\ requested'[t] = ShownFor(tabCounts'[t])
                    /\ (svgPathData # "null" /\ t \in open) => icon'[t] = requested'[t]
            /\ (regLast'.op = "onUpdated" /\ regLast'.tab = t)
                 => /\ MapHas(tabCounts', t)
                    /\ tabCounts'[t] = 0
                    /\ requested'[t] = Disabled
                    /\ (svgPathData # "null" /\ t \in open) => icon'[t] = Disabled]_vars

\* the fetch of the glyph failed and an apply for the closed tab 2 was
\* rejected; the report of tab 1 handled afterwards is stored and shown
C15_Witness ==
    /\ svgPathData = "fallback"
    /\ fetching = <<>>
    /\ 2 \notin open
    /\ requested[2] = [state |-> "enabled", label |-> "7"]
    /\ icon[2] = NoIndicator
    /\ regLast.op = "onMessage"
    /\ regLast.tab = 1
    /\ 1 \in open
    /\ tabCounts[1] = 3
    /\ icon[1] = [state |-> "enabled", label |-> "3"]

\* C16: over a page that does not change, every scan after the first
\* computes the count the scan before it computed, sends nothing and leaves
\* the page as it was; and no container and no link ever carries more than
\* one set of listeners.
C16_ScanIdempotent ==
    [][\A t \in Tabs :
        /\ (ScanStep(t) /\ lastReportedCount[t] # NO_REPORT)
             => /\ lastReportedCount'[t] = lastReportedCount[t]
                /\ msgQ' = msgQ
                /\ dom'[t] = dom[t]
        /\ \A n \in Nodes :
             /\ Len(dom'[t][n].containerListeners) <= 1
             /\ Len(dom'[t][n].anchorListeners) <= 1]_vars

\* a second scan over two cards with different links has computed 2 again
\* and sent nothing; each card and each link carries one set of listeners
C16_Witness ==
    /\ obsLast.op = "scanAndBind"
    /\ obsLast.tab = 1
    /\ ~obsLast.sent
    /\ lastReportedCount[1] = 2
    /\ lastSent[1] = 2
    /\ \A n \in 1..2 :
         /\ dom[1][n].handledContainer
         /\ Len(dom[1][n].containerListeners) = 1
         /\ Len(dom[1][n].anchorListeners) = 1

\* C17: a middle-button press and release over a handled container, or
\* over a link inside it, has the default of pointerdown/up and mousedown/up
\* prevented and opens exactly one new browsing context, at the absolute url
\* of the link the scan took for the card; a press of any other button
\* prevents nothing and opens nothing.
C17_MiddleClickOpensOnce ==
    [][\A t \in Tabs, n \in Nodes :
        (obsLast'.op = "pressRelease" /\ obsLast'.tab = t /\ obsLast'.node = n)
            => /\ (obsLast'.button = 1 /\ dom[t][n].handledContainer)
                    => /\ obsLast'.prevented
                       /\ obsLast'.opened =
                            <<(<<"https:", "", "bsky.app">>
                               \o Tail(dom[t][AnchorOf(dom[t], n)].href))>>
               /\ obsLast'.button # 1
                    => /\ ~obsLast'.prevented
                       /\ obsLast'.opened = <<>>]_vars

\* the middle button was pressed over the handled link of a handled card
\* and one context was opened, at the url of the post
C17_Witness ==
    /\ obsLast.op = "pressRelease"
    /\ obsLast.button = 1
    /\ obsLast.target = "link"
    /\ dom[1][obsLast.node].handledContainer
    /\ dom[1][obsLast.node].handledAnchor
    /\ obsLast.prevented
    /\ obsLast.opened = <<(<<"https:", "", "bsky.app", "profile", "alice", "post", "1">>)>>

\* C18 (as claimed): on the monitored route every change of the cards of
\* the page, a removal included, is followed by a rescan that reports the
\* new count and by the Registry applying its label: whenever no scan is
\* pending and nothing is in flight, the count last reported, the count
\* stored and the label applied are those of the cards now on the page.
C18_RemovalIsReported ==
    \A t \in Tabs :
        (pc[t] = "ready" /\ timers[t] = {} /\ msgQ = <<>> /\ fetching = <<>>)
            => /\ lastReportedCount[t] = Cardinality(UniqueHrefs(dom[t]))
               /\ MapHas(tabCounts, t)
               /\ tabCounts[t] = Cardinality(UniqueHrefs(dom[t]))
               /\ icon[t] = ShownFor(Cardinality(UniqueHrefs(dom[t])))

\* the containers of tab t that carry container listeners
HandledCards(d) == {c \in Nodes : d[c].present /\ d[c].containerListeners # <<>>}

\* C19: the count a scan computes on the monitored route is the number of
\* distinct urls among the cards it has accepted and bound, however many
\* cards share a url; the message it sends carries that count.
C19_CountsDistinctPaths ==
    [][\A t \in Tabs :
        ScanStep(t)
            => /\ lastReportedCount'[t] =
                    Cardinality({dom'[t][c].containerListeners[1] : c \in HandledCards(dom'[t])})
               /\ SendStep(t) => SentCount = Num(lastReportedCount'[t])]_vars

\* two top-level cards with the same link are both bound and count as 1
C19_Witness ==
    /\ obsLast.op = "scanAndBind"
    /\ lastReportedCount[1] = 1
    /\ Cardinality(HandledCards(dom[1])) = 2
    /\ \A c \in HandledCards(dom[1]) : dom[1][c].href = HrefPost1 /\ dom[1][c].parent = 0

\* a link the scan qualifies: it matches the selector and the pattern and is
\* visible
QualifyingLink(d, n) ==
    /\ MatchesSelector(d[n].href)
    /\ MatchesPattern(d[n].href)
    /\ isLinkVisible(d, n)

\* one visible top-level card with its own qualifying link, and nothing else
\* on the page but quoted cards embedded in it, each with its own qualifying
\* link
QuotedCardPage(d) ==
    /\ d[1].present /\ d[1].visible /\ d[1].parent = 0 /\ QualifyingLink(d, 1)
    /\ \E n \in Nodes : n # 1 /\ d[n].present
    /\ \A n \in Nodes : (n # 1 /\ d[n].present) => (d[n].parent # 0 /\ QualifyingLink(d, n))

\* C20: a container nested inside another container never carries the
\* container marker or container listeners and adds nothing to the count: no
\* scan reports more than the number of top-level containers, and a
\* top-level card embedding quoted cards with their own qualifying links is
\* counted as 1.
C20_NestedNotCounted ==
    [][\A t \in Tabs :
        ScanStep(t)
            => /\ \A n \in Nodes :
                    (dom'[t][n].present /\ dom'[t][n].parent # 0)
                        => /\ ~dom'[t][n].handledContainer
                           /\ dom'[t][n].containerListeners = <<>>
               /\ lastReportedCount'[t]
                    <= Cardinality({n \in Nodes : dom[t][n].present /\ dom[t][n].parent = 0})
               /\ (isOnSavedPage(url[t]) /\ QuotedCardPage(dom[t]))
                    => lastReportedCount'[t] = 1]_vars

\* a scanned card that embeds a quoted card linking to another post: the
\* count is 1, the outer card is bound and the quoted one is not
C20_Witness ==
    /\ obsLast.op = "scanAndBind"
    /\ QuotedCardPage(dom[1])
    /\ dom[1][2].present /\ dom[1][2].visible /\ dom[1][2].parent = 1
    /\ dom[1][1].href = HrefPost1 /\ dom[1][2].href = HrefPost2
    /\ lastReportedCount[1] = 1
    /\ dom[1][1].handledContainer
    /\ ~dom[1][2].handledContainer

\* the top-level containers that are visible and hold a visible link matching
\* the selector
VisibleCards(d) ==
    {c \in Nodes :
        /\ d[c].present /\ d[c].visible /\ d[c].parent = 0
        /\ \E n \in Nodes :
              /\ d[n].present /\ Inside(d, n, c)
              /\ MatchesSelector(d[n].href) /\ d[n].linkVisible}

\* C21: a scan gives no container handlers to a container that is not
\* visible and no link handlers to a link that is not visible, and counts
\* no more than the visible top-level containers that hold a visible link.
C21_HiddenNotCountedNotBound ==
    [][\A t \in Tabs :
        ScanStep(t)
            => /\ \A n \in Nodes :
                    (dom[t][n].present /\ ~dom[t][n].visible)
                        => /\ dom'[t][n].handledContainer = dom[t][n].handledContainer
                           /\ dom'[t][n].containerListeners = dom[t][n].containerListeners
               /\ \A n \in Nodes :
                    (dom[t][n].present /\ ~dom[t][n].linkVisible)
                        => /\ dom'[t][n].handledAnchor = dom[t][n].handledAnchor
                           /\ dom'[t][n].anchorListeners = dom[t][n].anchorListeners
               /\ lastReportedCount'[t] <= Cardinality(VisibleCards(dom[t]))]_vars

\* a scan over a hidden card with a qualifying link and a visible card whose
\* qualifying link is hidden: neither is bound, and 0 has been reported
C21_Witness ==
    /\ obsLast.op = "scanAndBind"
    /\ obsLast.sent
    /\ lastReportedCount[1] = 0
    /\ \A n \in 1..2 :
          /\ dom[1][n].present /\ dom[1][n].parent = 0 /\ dom[1][n].href = HrefPost1
          /\ ~dom[1][n].handledContainer /\ ~dom[1][n].handledAnchor
    /\ ~dom[1][1].visible /\ dom[1][1].linkVisible
    /\ dom[1][2].visible /\ ~dom[1][2].linkVisible

SendFailed(t) ==
    /\ lastReportedCount[t] # NO_REPORT
    /\ lastSent[t] # lastReportedCount[t]

\* C23: after a send has failed, the next scan calls sendMessage again, also
\* when it computes the count whose send failed.
C23_FailedSendIsRetried ==
    [][\A t \in Tabs : (ScanStep(t) /\ SendFailed(t)) => obsLast'.tried]_vars

\* the cards of a page that carry handlers on the container and on the link
\* the container resolves to
BoundCards(d) ==
    {c \in Nodes :
        /\ d[c].present /\ d[c].handledContainer /\ d[c].containerListeners # <<>>
        /\ AnchorOf(d, c) # 0
        /\ d[AnchorOf(d, c)].handledAnchor /\ d[AnchorOf(d, c)].anchorListeners # <<>>}

\* C24: when a scan sends a count n > 0, the page it leaves has handlers on
\* the container and on the link of every card counted: n is the number of
\* distinct hrefs among the cards handled on both.
C24_BoundBeforeReported ==
    [][\A t \in Tabs :
        (ScanStep(t) /\ SendStep(t) /\ SentCount.val > 0)
            => /\ Accepted(dom[t]) \subseteq BoundCards(dom'[t])
               /\ SentCount.val =
                    Cardinality({dom'[t][AnchorOf(dom'[t], c)].href : c \in BoundCards(dom'[t])})]_vars

\* the message with count 2 is in flight and both cards of the page are
\* handled on container and link
C24_Witness ==
    /\ msgQ # <<>>
    /\ msgQ[1].sender = 1
    /\ msgQ[1].message.count = Num(2)
    /\ BoundCards(dom[1]) = 1..2
    /\ dom[1][1].href # dom[1][2].href

\* C25: once every applyIcon call has completed, the indicator of each open
\* tab is the one derived from the count stored for it.
C25_IndicatorMatchesStoredCount ==
    (fetching = <<>> /\ activating = {})
        => \A t \in open : MapHas(tabCounts, t) => icon[t] = Indicator(tabCounts[t])

\* C26: tabCounts holds records only for tabs that are still open (or whose
\* removal the service worker has yet to be told of); nothing processed
\* after a tab's removal re-creates a record for it.
C26_RecordsOnlyForOpenTabs ==
    \A t \in DOMAIN tabCounts :
        \/ t \in open
        \/ \E i \in 1..Len(sigQ) : sigQ[i].kind = "removed" /\ sigQ[i].tab = t

\* C27: a middle click over a handled card, or over its link, opens the
\* absolute url of the qualifying link the card holds at the time of the
\* click, also when the href of that link has changed since the scan that
\* handled the card.
C27_OpensCurrentLink ==
    [][\A t \in Tabs, n \in Nodes :
        ( /\ obsLast'.op = "pressRelease" /\ obsLast'.tab = t /\ obsLast'.node = n
          /\ obsLast'.button = MIDDLE_BUTTON
          /\ dom[t][n].handledContainer
          /\ n \in Accepted(dom[t]) )
            => obsLast'.opened = <<toAbsoluteUrl(dom[t][AnchorOf(dom[t], n)].href, url[t].host)>>]_vars

====
